---- MODULE Spec2Model ----
(***************************************************************************)
(* Joint replenishment solver: find_optimal_policy of jrp_solver.py.       *)
(*                                                                         *)
(* Numbers.  The inputs A, r, a, D, v are Python ints.  The floats the     *)
(* solver computes from them are IEEE 754 binary64 values, and every       *)
(* operation on them (/, *, +, math.sqrt) gives the float nearest to the   *)
(* exact result, the one of even mantissa when two are equally near.  The  *)
(* model computes with the same values and the same rounding:              *)
(*   - a float is nan, an infinity, 0 or s * m * 2^e with a 53-bit         *)
(*     mantissa m, held as a natural number of any size (a sequence of     *)
(*     base-2^15 digits, since the integers of TLC are 32 bits wide);      *)
(*     the exponents the inputs of the model give rise to are far from     *)
(*     the limits of binary64, so that no operation overflows or leaves    *)
(*     the normal range; 0.0 and -0.0, which Python's == and every         *)
(*     operation of the solver treat alike, are one value;                 *)
(*   - round(x, 5) is an integer number of 1e-5 units and round(x, 2) an   *)
(*     integer number of cents: u units stand for the float nearest to     *)
(*     u / 10^k, which is the float round() returns (operator Units).      *)
(* The builtin sum() depends on the interpreter: CPython up to 3.11 adds   *)
(* the floats from left to right, CPython from 3.12 on carries a           *)
(* compensation term along (Neumaier's summation) and adds it at the end.  *)
(* The repository names no interpreter, so the one a run is under is a     *)
(* choice made at the start (variable python).                             *)
(* Python raises where IEEE arithmetic would give inf or nan: int or float *)
(* division by zero raises ZeroDivisionError, math.sqrt of a negative      *)
(* number raises ValueError, round(inf) raises OverflowError and           *)
(* round(nan) raises ValueError.                                           *)
(***************************************************************************)
EXTENDS Integers, Sequences, FiniteSets

\* ---------------------------------------------------------------- bounds
\* Largest number of items of an instance.
MaxItems == 3

\* Values the fields of the instances are drawn from.
AVals == {-1, 0, 4}
RVals == {-1, 0, 1}

\* The (a, D, v) of the items: three items of the same demand value whose
\* a / (D * v) differ, one more of a / (D * v) = 0 and one without demand.
Goods ==
    {[a |-> 0, D |-> 11, v |-> 1], [a |-> 25, D |-> 11, v |-> 1],
     [a |-> 49, D |-> 11, v |-> 1], [a |-> 0, D |-> 1, v |-> 2],
     [a |-> 5, D |-> 0, v |-> 1]}

\* The id of the item supplied at position k: positions 1 and 3 share an id.
IdAt(k) == IF k % 2 = 1 THEN "P" ELSE "Q"

\* ------------------------------------------------------------ arithmetic
Sign(x) == IF x > 0 THEN 1 ELSE IF x < 0 THEN -1 ELSE 0

Abs(x) == IF x < 0 THEN -x ELSE x

\* ------------------------------------------------- naturals of any size
\* A natural number is the sequence of its digits in base 2^15, the least
\* significant first and the last one not 0 (0 is the empty sequence).
Base == 2^15

RECURSIVE Trim(_)
Trim(x) ==
    IF x = <<>> \/ x[Len(x)] # 0 THEN x ELSE Trim(SubSeq(x, 1, Len(x) - 1))

RECURSIVE Big(_)
Big(n) == IF n = 0 THEN <<>> ELSE <<n % Base>> \o Big(n \div Base)

RECURSIVE Small(_)
Small(x) == IF x = <<>> THEN 0 ELSE Head(x) + Base * Small(Tail(x))

RECURSIVE CmpAt(_, _, _)
CmpAt(x, y, k) ==
    IF k = 0 THEN 0
    ELSE IF x[k] # y[k] THEN (IF x[k] < y[k] THEN -1 ELSE 1)
    ELSE CmpAt(x, y, k - 1)

\* -1, 0 or 1 as x is below, equal to or above y.
Cmp(x, y) ==
    IF Len(x) # Len(y) THEN (IF Len(x) < Len(y) THEN -1 ELSE 1)
    ELSE CmpAt(x, y, Len(x))

RECURSIVE AddAt(_, _, _, _)
AddAt(x, y, k, c) ==
    IF k > Len(x) /\ k > Len(y) THEN (IF c = 0 THEN <<>> ELSE <<c>>)
    ELSE LET t == (IF k > Len(x) THEN 0 ELSE x[k])
                  + (IF k > Len(y) THEN 0 ELSE y[k]) + c
         IN  <<t % Base>> \o AddAt(x, y, k + 1, t \div Base)

Add(x, y) == AddAt(x, y, 1, 0)

RECURSIVE SubAt(_, _, _, _)
SubAt(x, y, k, b) ==
    IF k > Len(x) THEN <<>>
    ELSE LET t == x[k] - (IF k > Len(y) THEN 0 ELSE y[k]) - b
         IN  <<IF t < 0 THEN t + Base ELSE t>>
                 \o SubAt(x, y, k + 1, IF t < 0 THEN 1 ELSE 0)

\* x - y for x >= y.
Sub(x, y) == Trim(SubAt(x, y, 1, 0))

RECURSIVE MulSmallAt(_, _, _, _)
MulSmallAt(x, d, k, c) ==
    IF k > Len(x) THEN (IF c = 0 THEN <<>> ELSE <<c>>)
    ELSE LET t == x[k] * d + c
         IN  <<t % Base>> \o MulSmallAt(x, d, k + 1, t \div Base)

\* x * d for a digit d.
MulSmall(x, d) == IF d = 0 THEN <<>> ELSE MulSmallAt(x, d, 1, 0)

RECURSIVE MulAt(_, _, _)
MulAt(x, y, k) ==
    IF k > Len(y) THEN <<>>
    ELSE LET rest == MulAt(x, y, k + 1)
         IN  Add(MulSmall(x, y[k]), IF rest = <<>> THEN rest ELSE <<0>> \o rest)

Mul(x, y) == MulAt(x, y, 1)

RECURSIVE DivSmallAt(_, _, _, _)
DivSmallAt(x, d, k, r) ==
    IF k = 0 THEN <<>>
    ELSE LET t == r * Base + x[k]
         IN  DivSmallAt(x, d, k - 1, t % d) \o <<t \div d>>

\* x * 2^k and floor(x / 2^k).
Shl(x, k) ==
    IF x = <<>> THEN x
    ELSE [j \in 1..(k \div 15) |-> 0] \o MulSmall(x, 2^(k % 15))

Shr(x, k) ==
    IF k \div 15 >= Len(x) THEN <<>>
    ELSE LET hi == SubSeq(x, (k \div 15) + 1, Len(x))
         IN  Trim(DivSmallAt(hi, 2^(k % 15), Len(hi), 0))

RECURSIVE Bits(_)
Bits(n) == IF n = 0 THEN 0 ELSE 1 + Bits(n \div 2)

\* The number of binary digits of x.
BitLen(x) == IF x = <<>> THEN 0 ELSE 15 * (Len(x) - 1) + Bits(x[Len(x)])

\* The digit floor(rem / y), or one up to 2 above it, for rem < y * Base and
\* y's top digit at least Base / 2: from the top digits of the two.
Estimate(rem, y) ==
    LET n   == Len(y)
        top == IF Len(rem) > n THEN rem[n + 1] * Base + rem[n]
               ELSE IF Len(rem) = n THEN rem[n] ELSE 0
    IN  IF Len(rem) > n + 1 \/ top \div y[n] >= Base THEN Base - 1
        ELSE top \div y[n]

\* The largest digit d <= est with y * d <= rem, and rem - y * d.
RECURSIVE Fit(_, _, _)
Fit(rem, y, est) ==
    LET p == MulSmall(y, est)
    IN  IF Cmp(p, rem) <= 0 THEN [d |-> est, rem |-> Sub(rem, p)]
        ELSE Fit(rem, y, est - 1)

\* Long division: the digits x[k], ..., x[1] are still to be brought down.
RECURSIVE LongDiv(_, _, _, _)
LongDiv(x, y, k, rem) ==
    IF k = 0 THEN [q |-> <<>>, exact |-> rem = <<>>]
    ELSE LET cur  == Trim(<<x[k]>> \o rem)
             f    == Fit(cur, y, Estimate(cur, y))
             rest == LongDiv(x, y, k - 1, f.rem)
         IN  [q |-> rest.q \o <<f.d>>, exact |-> rest.exact]

\* floor(x / y) for y > 0, and whether the division is exact.
DivMod(x, y) ==
    LET s  == 15 - Bits(y[Len(y)])
        xs == Shl(x, s)
        ys == Shl(y, s)
        n  == Len(ys) - 1
    IN  IF Len(xs) <= n THEN [q |-> <<>>, exact |-> xs = <<>>]
        ELSE LET d == LongDiv(xs, ys, Len(xs) - n,
                              Trim(SubSeq(xs, Len(xs) - n + 1, Len(xs))))
             IN  [q |-> Trim(d.q), exact |-> d.exact]

\* floor(sqrt(n)) of an integer 0 <= n < 2^30 (Newton's iteration from above).
RECURSIVE IntSqrtFrom(_, _)
IntSqrtFrom(n, x) ==
    LET y == (x + n \div x) \div 2
    IN  IF y >= x THEN x ELSE IntSqrtFrom(n, y)

IntSqrt(n) == IF n = 0 THEN 0 ELSE IntSqrtFrom(n, Base)

\* The largest digit d <= est with (y + d) * d <= rem, for y a multiple of
\* Base, and rem - (y + d) * d.
RECURSIVE FitRoot(_, _, _)
FitRoot(rem, y, est) ==
    LET p == MulSmall(<<est>> \o Tail(y), est)
    IN  IF Cmp(p, rem) <= 0 THEN [d |-> est, rem |-> Sub(rem, p)]
        ELSE FitRoot(rem, y, est - 1)

\* The long-hand square root: the digit pairs x[2k-1 .. 2k], ..., x[1 .. 2]
\* are still to be brought down, r is the root of the digits above them
\* and rem what they leave.
RECURSIVE SqrtDigits(_, _, _, _)
SqrtDigits(x, k, r, rem) ==
    IF k = 0 THEN [root |-> r, exact |-> rem = <<>>]
    ELSE LET cur == Trim(<<x[2 * k - 1], x[2 * k]>> \o rem)
             y   == <<0>> \o Shl(r, 1)
             f   == FitRoot(cur, y, Estimate(Shl(cur, 14), Shl(y, 14)))
         IN  SqrtDigits(x, k - 1, <<f.d>> \o r, f.rem)

\* floor(sqrt(x)) for x of an even number of digits, the top one at least
\* Base / 4, and whether x is its square.
Sqrt(x) ==
    LET h == Len(x) \div 2
        t == x[2 * h] * Base + x[2 * h - 1]
        r == IntSqrt(t)
    IN  SqrtDigits(x, h - 1, <<r>>, Big(t - r * r))

\* ---------------------------------------------------------------- floats
\* A Python float (IEEE 754 binary64): nan, an infinity [k |-> "inf"] of
\* sign s, 0, or s * m * 2^e with 2^52 <= m < 2^53.
NaN == [k |-> "nan", s |-> 0, m |-> <<>>, e |-> 0]

Inf(s) == [k |-> "inf", s |-> s, m |-> <<>>, e |-> 0]

Zero == [k |-> "fin", s |-> 0, m |-> <<>>, e |-> 0]

\* The float nearest to s * (n + f) * 2^e, where 0 <= f < 1 and sticky says
\* whether f > 0; the even one of two equally near.
Nearest(s, n, e, sticky) ==
    IF n = <<>> THEN Zero
    ELSE LET len  == BitLen(n)
             up   == IF len < 55 THEN 55 - len ELSE 0
             w    == Shl(n, up)
             k    == len + up - 53
             q2   == Shr(w, k - 1)
             q    == Shr(q2, 1)
             half == q2[1] % 2 = 1
             rest == sticky \/ Cmp(Shl(q2, k - 1), w) # 0
             m    == IF half /\ (rest \/ q[1] % 2 = 1) THEN Add(q, <<1>>) ELSE q
         IN  IF BitLen(m) = 54
             THEN [k |-> "fin", s |-> s, m |-> Shr(m, 1), e |-> e - up + k + 1]
             ELSE [k |-> "fin", s |-> s, m |-> m, e |-> e - up + k]

\* float(n) of an int n: exact when n has no more than 53 binary digits.
Float(n) ==
    LET b   == Big(Abs(n))
        len == BitLen(b)
    IN  IF n = 0 THEN Zero
        ELSE IF len <= 53
             THEN [k |-> "fin", s |-> Sign(n), m |-> Shl(b, 53 - len),
                   e |-> len - 53]
        ELSE Nearest(Sign(n), b, 0, FALSE)

\* x * y.
FMul(x, y) ==
    IF x.k = "nan" \/ y.k = "nan" THEN NaN
    ELSE IF x.k = "inf" \/ y.k = "inf"
         THEN (IF x.s * y.s = 0 THEN NaN ELSE Inf(x.s * y.s))
    ELSE Nearest(x.s * y.s, Mul(x.m, y.m), x.e + y.e, FALSE)

\* x / y of two finite floats, y not 0.
FDiv(x, y) ==
    IF x.s = 0 THEN Zero
    ELSE LET d == DivMod(Shl(x.m, 55), y.m)
         IN  Nearest(x.s * y.s, d.q, x.e - y.e - 55, ~d.exact)

\* x + y of two finite floats.
FAdd(x, y) ==
    IF x.s = 0 THEN y
    ELSE IF y.s = 0 THEN x
    ELSE IF x.e - y.e >= 55 THEN x
    ELSE IF y.e - x.e >= 55 THEN y
    ELSE LET e  == IF x.e < y.e THEN x.e ELSE y.e
             xm == Shl(x.m, x.e - e)
             ym == Shl(y.m, y.e - e)
             c  == Cmp(xm, ym)
         IN  IF x.s = y.s THEN Nearest(x.s, Add(xm, ym), e, FALSE)
             ELSE IF c = 0 THEN Zero
             ELSE IF c > 0 THEN Nearest(x.s, Sub(xm, ym), e, FALSE)
             ELSE Nearest(y.s, Sub(ym, xm), e, FALSE)

\* x - y of two finite floats.
FSub(x, y) == FAdd(x, [y EXCEPT !.s = -y.s])

\* abs(x).
FAbs(x) == [x EXCEPT !.s = Abs(x.s)]

\* math.sqrt(x) of a finite float x >= 0.
FSqrt(x) ==
    IF x.s = 0 THEN Zero
    ELSE LET k == IF x.e % 2 = 0 THEN 66 ELSE 67
             n == Shl(x.m, k)
             r == Sqrt(n)
         IN  Nearest(1, r.root, (x.e - k) \div 2, ~r.exact)

\* x < y of two floats, neither nan.
FLess(x, y) ==
    LET rank(z) == IF z.k = "inf" THEN 2 * z.s ELSE z.s
    IN  IF rank(x) # rank(y) THEN rank(x) < rank(y)
        ELSE IF x.k = "inf" \/ x.s = 0 THEN FALSE
        ELSE LET c == IF x.e # y.e THEN (IF x.e < y.e THEN -1 ELSE 1)
                      ELSE Cmp(x.m, y.m)
             IN  IF x.s > 0 THEN c < 0 ELSE c > 0

\* floor(2 * n * 2^e) and whether the floor is exact.
Twice(n, e) ==
    IF e + 1 >= 0 THEN [j |-> Small(Shl(n, e + 1)), exact |-> TRUE]
    ELSE LET q == Shr(n, -(e + 1))
         IN  [j |-> Small(q), exact |-> Cmp(Shl(q, -(e + 1)), n) = 0]

\* RoundHalfEven with a tie going up.
RoundHalfUp(h) == (h.j + 1) \div 2

\* Python's round of x >= 0, given h = [j, exact] with j = floor(2 * x):
\* the nearest integer, a tie going to the even one.
RoundHalfEven(h) ==
    IF h.j % 2 = 0 THEN h.j \div 2
    ELSE IF h.exact /\ ((h.j - 1) \div 2) % 2 = 0 THEN (h.j - 1) \div 2
    ELSE (h.j + 1) \div 2

\* round(x) of a finite float: an int.
Round(x) == x.s * RoundHalfEven(Twice(x.m, x.e))

\* round(x, k) of a finite float, in units of 10^-k.
RoundDigits(x, k) == x.s * RoundHalfEven(Twice(Mul(x.m, Big(10^k)), x.e))

\* The float round(x, k) returns for u units of 10^-k.
Units(u, k) == IF u = 0 THEN Zero ELSE FDiv(Float(u), Float(10^k))

\* ------------------------------------------------------------ the solver
\* Item.a_over_Dv: the ranking key, +inf for an item without demand value.
a_over_Dv(item) ==
    IF item.D * item.v > 0 THEN FDiv(Float(item.a), Float(item.D * item.v))
    ELSE Inf(1)

\* InsertByKey with x going in front of the elements of equal key.
RECURSIVE InsertBeforeEqual(_, _)
InsertBeforeEqual(x, s) ==
    IF s = <<>> THEN <<x>>
    ELSE IF ~FLess(Head(s).key, x.key) THEN <<x>> \o s
    ELSE <<Head(s)>> \o InsertBeforeEqual(x, Tail(s))

\* s is sorted by key; x goes behind every element whose key is not larger.
RECURSIVE InsertByKey(_, _)
InsertByKey(x, s) ==
    IF s = <<>> THEN <<x>>
    ELSE IF FLess(x.key, Head(s).key) THEN <<x>> \o s
    ELSE <<Head(s)>> \o InsertByKey(x, Tail(s))

\* The first n of the keyed items, sorted.
RECURSIVE SortKeyed(_, _)
SortKeyed(keyed, n) ==
    IF n = 0 THEN <<>> ELSE InsertByKey(keyed[n], SortKeyed(keyed, n - 1))

\* sorted with the items left in the order supplied.
Unsorted(items) == items

\* sorted(items, key=lambda x: x.a_over_Dv): the key of each item is taken
\* once, and the items are put in ascending order of it by a stable sort.
sorted(items) ==
    LET keyed == [k \in 1..Len(items) |->
                     [key |-> a_over_Dv(items[k]), item |-> items[k]]]
        s     == SortKeyed(keyed, Len(items))
    IN  [k \in 1..Len(items) |-> s[k].item]

\* SortCall as instance.items.sort(...) would do it: the list handed in is
\* sorted in place.
SortInPlace(items) == [arg |-> sorted(items), result |-> sorted(items)]

\* The call sorted(instance.items, ...): the list handed in as it is after
\* the call (arg) and the list the call returns (result).
SortCall(items) == [arg |-> items, result |-> sorted(items)]

\* InitialMultipliers with the list started at 0.
ZeroMultipliers(n) == [k \in 1..n |-> 0]

\* m_values = [1] * len(sorted_items)
InitialMultipliers(n) == [k \in 1..n |-> 1]

\* The value of an expression: a result, or the exception it raises.
Ok(v) == [exc |-> "", val |-> v]

Raise(e) == [exc |-> e, val |-> 0]

Max(x, y) == IF x >= y THEN x ELSE y

\* round(math.sqrt(ratio)) of a float ratio.
RoundSqrt(ratio) ==
    IF ratio.k = "nan" THEN Raise("ValueError")
    ELSE IF ratio.s < 0 THEN Raise("ValueError")
    ELSE IF ratio.k = "inf" THEN Raise("OverflowError")
    ELSE Ok(Round(FSqrt(ratio)))

\* The body of the loop over the ranks 1 .. len - 1 (here k = 2 .. Len):
\* the multiplier of the item at rank k.
Multiplier(A, items, D1v1, k) ==
    LET key == a_over_Dv(items[k])
        den == A + items[1].a
    IN  IF den = 0 THEN Raise("ZeroDivisionError")
        ELSE LET ratio == FMul(key, FDiv(Float(D1v1), Float(den)))
                 root  == RoundSqrt(ratio)
             IN  IF root.exc # "" THEN root ELSE Ok(Max(1, root.val))

\* The element of a set of one element: Only({e(v) : v \in {d}}) is e(v) for
\* v the value of d.
Only(S) == CHOOSE v \in S : TRUE

\* The interpreters: CPython up to 3.11, and from 3.12 on.
Pythons == {"3.11", "3.12"}

\* sum() of CPython up to 3.11 over the first k of the floats xs: 0 + xs[1],
\* then each next float added to the result so far.
RECURSIVE PlainSum(_, _)
PlainSum(xs, k) ==
    IF k = 0 THEN Zero ELSE FAdd(PlainSum(xs, k - 1), xs[k])

\* The compensation of one addition t = f + x of sum() from 3.12 on: what
\* the addition lost to rounding, taken from the larger of the two terms.
Lost(f, x, t) ==
    IF ~FLess(FAbs(f), FAbs(x))
    THEN Only({FAdd(u, x) : u \in {FSub(f, t)}})
    ELSE Only({FAdd(u, f) : u \in {FSub(x, t)}})

\* One pass of the loop of sum() from 3.12 on: x is added to the result so
\* far f, and what the addition lost to the compensation c.
Step(f, c, x) ==
    Only({Only({[f |-> t, c |-> FAdd(c, d)] : d \in {Lost(f, x, t)}}) :
             t \in {FAdd(f, x)}})

\* sum() of CPython from 3.12 on: the floats xs[k], xs[k + 1], ... are still
\* to be added, and the compensation is added when the list is used up.
RECURSIVE CompensatedSum(_, _, _, _)
CompensatedSum(xs, k, f, c) ==
    IF k > Len(xs) THEN (IF c.s # 0 THEN FAdd(f, c) ELSE f)
    ELSE Only({CompensatedSum(xs, k + 1, p.f, p.c) :
                  p \in {Step(f, c, xs[k])}})

\* sum(xs) of a non-empty list of finite floats under the interpreter py:
\* either way the first float is added to the int 0 sum() starts from.
Sum(py, xs) ==
    IF py = "3.11" THEN PlainSum(xs, Len(xs))
    ELSE CompensatedSum(xs, 2, xs[1], Zero)

\* sum(item.a / m_values[i] ...)
SumSetup(py, items, m) ==
    Sum(py, [k \in 1..Len(items) |-> FDiv(Float(items[k].a), Float(m[k]))])

\* sum(m_values[i] * item.D * item.v ...) over the first k items.
RECURSIVE SumDemand(_, _, _)
SumDemand(items, m, k) ==
    IF k = 0 THEN 0
    ELSE SumDemand(items, m, k - 1) + m[k] * items[k].D * items[k].v

\* T_star = math.sqrt(num / den).
CycleTime(py, A, r, items, m) ==
    LET den == r * SumDemand(items, m, Len(items))
    IN  IF den = 0 THEN Raise("ZeroDivisionError")
        ELSE Only({IF q.s < 0 THEN Raise("ValueError") ELSE Ok(FSqrt(q)) :
                   q \in {FDiv(num, Float(den)) :
                          num \in {FMul(Float(2), t) :
                                   t \in {FAdd(Float(A), u) :
                                          u \in {SumSetup(py, items, m)}}}}})

\* ti = m_values[i] * T_star
CycleOf(m, T) == FMul(Float(m), T)

\* h_cost = (item.D * ti * item.v * instance.r) / 2
HoldingOf(r, item, ti) ==
    FDiv(FMul(FMul(FMul(Float(item.D), ti), Float(item.v)), Float(r)),
         Float(2))

\* The record of one item: ti, h_cost, s_cost and their rounded values.
ItemResult(r, item, m, T) ==
    LET ti     == CycleOf(m, T)
        h_cost == HoldingOf(r, item, ti)
    IN  IF ti.s = 0 THEN Raise("ZeroDivisionError")
        ELSE LET s_cost == FDiv(Float(item.a), ti)
             IN  Ok([ID |-> item.id,
                     Multiplier |-> m,
                     IndividualCycle |-> RoundDigits(ti, 5),
                     SetupCost |-> RoundDigits(s_cost, 2),
                     HoldingCost |-> RoundDigits(h_cost, 2),
                     TotalItemCost |-> RoundDigits(FAdd(s_cost, h_cost), 2)])

\* SumTotals with the rounded setup and holding costs added up instead.
SumSetupAndHolding(py, results) ==
    Sum(py, [k \in 1..(2 * Len(results)) |->
                IF k % 2 = 1 THEN Units(results[(k + 1) \div 2].SetupCost, 2)
                ELSE Units(results[k \div 2].HoldingCost, 2)])

\* sum(res["Total Item Cost ($)"] ...)
SumTotals(py, results) ==
    Sum(py, [k \in 1..Len(results) |-> Units(results[k].TotalItemCost, 2)])

\* total_system_cost = (instance.A / T_star) + sum(...)
TotalSystemCost(py, A, T, results) ==
    IF T.s = 0 THEN Raise("ZeroDivisionError")
    ELSE Only({Ok(FAdd(q, u)) :
                  q \in {FDiv(Float(A), T)}, u \in {SumTotals(py, results)}})

\* ----------------------------------------------------------------- state
VARIABLES
    python,         \* the interpreter the program runs under
    instance,       \* the JRPInstance handed to find_optimal_policy
    snapshot,       \* the caller's copy of the instance, taken before the call
    pc,             \* the line the call is at, or "returned" / "raised"
    sorted_items,   \* locals of the running call
    m_values,
    D1_v1,
    i,              \* loop index (1-based)
    T_star,
    item_results,
    outcome,        \* what the last finished call returned or raised
    prev,           \* the outcome of the call before it
    rel             \* how this call's instance relates to the previous call's

vars == <<python, instance, snapshot, pc, sorted_items, m_values, D1_v1, i,
          T_star, item_results, outcome, prev, rel>>

locals == <<sorted_items, m_values, D1_v1, i, T_star, item_results>>

\* The value of a float not assigned yet.
Unset == [k |-> "none", s |-> 0, m |-> <<>>, e |-> 0]

NoOutcome ==
    [kind |-> "none", exc |-> "", T_star |-> Unset,
     total_system_cost |-> Unset, item_results |-> <<>>]

\* Item(id, a, D, v) for the goods g.
Item(id, g) == [id |-> id, a |-> g.a, D |-> g.D, v |-> g.v]

\* The item lists of 0 .. MaxItems items, no two of them the same goods,
\* the ids given by position.
ItemLists ==
    UNION {{[k \in 1..n |-> Item(IdAt(k), s[k])] :
               s \in {t \in [1..n -> Goods] :
                          \A j, k \in 1..n : t[j] = t[k] => j = k}} :
           n \in 0..MaxItems}

NoLocals ==
    /\ sorted_items' = <<>>
    /\ m_values' = <<>>
    /\ D1_v1' = 0
    /\ i' = 0
    /\ T_star' = Unset
    /\ item_results' = <<>>

Init ==
    /\ python \in Pythons
    /\ instance \in [instance_name : {"Inventory_Batch"}, A : AVals,
                     r : RVals, items : ItemLists]
    /\ snapshot = instance
    /\ pc = "line26"
    /\ sorted_items = <<>>
    /\ m_values = <<>>
    /\ D1_v1 = 0
    /\ i = 0
    /\ T_star = Unset
    /\ item_results = <<>>
    /\ outcome = NoOutcome
    /\ prev = NoOutcome
    /\ rel = "first"

\* The call ends in the exception e.
Raised(e) ==
    /\ pc' = "raised"
    /\ outcome' = [NoOutcome EXCEPT !.kind = "raised", !.exc = e]
    /\ NoLocals

\* Lines 26-28: rank the items, start the multipliers at 1, take the
\* reference item's D * v (IndexError on an empty list).
Rank ==
    /\ pc = "line26"
    /\ \E call \in {SortCall(instance.items)} :
           /\ instance' = [instance EXCEPT !.items = call.arg]
           /\ IF call.result = <<>>
              THEN Raised("IndexError")
              ELSE /\ sorted_items' = call.result
                   /\ m_values' = InitialMultipliers(Len(call.result))
                   /\ D1_v1' = call.result[1].D * call.result[1].v
                   /\ i' = IF Len(call.result) >= 2 THEN 2 ELSE 0
                   /\ pc' = IF Len(call.result) >= 2 THEN "line32" ELSE "line36"
                   /\ UNCHANGED <<T_star, item_results, outcome>>
    /\ UNCHANGED <<python, snapshot, prev, rel>>

\* Lines 31-33: one pass of the loop that sets m_values[i].
MultiplierStep ==
    /\ pc = "line32"
    /\ \E m \in {Multiplier(instance.A, sorted_items, D1_v1, i)} :
           IF m.exc # ""
           THEN Raised(m.exc)
           ELSE /\ m_values' = [m_values EXCEPT ![i] = m.val]
                /\ i' = IF i < Len(sorted_items) THEN i + 1 ELSE 0
                /\ pc' = IF i < Len(sorted_items) THEN "line32" ELSE "line36"
                /\ UNCHANGED <<sorted_items, D1_v1, T_star, item_results,
                               outcome>>
    /\ UNCHANGED <<python, instance, snapshot, prev, rel>>

\* Lines 36-38: the base cycle time.
CycleTimeStep ==
    /\ pc = "line36"
    /\ \E t \in {CycleTime(python, instance.A, instance.r, sorted_items,
                         m_values)} :
           IF t.exc # ""
           THEN Raised(t.exc)
           ELSE /\ T_star' = t.val
                /\ i' = 1
                /\ pc' = "line42"
                /\ UNCHANGED <<sorted_items, m_values, D1_v1, item_results,
                               outcome>>
    /\ UNCHANGED <<python, instance, snapshot, prev, rel>>

\* Lines 41-52: one pass of the loop that appends an item's record.
ItemResultStep ==
    /\ pc = "line42"
    /\ \E res \in {ItemResult(instance.r, sorted_items[i], m_values[i],
                             T_star)} :
           IF res.exc # ""
           THEN Raised(res.exc)
           ELSE /\ item_results' = Append(item_results, res.val)
                /\ i' = IF i < Len(sorted_items) THEN i + 1 ELSE 0
                /\ pc' = IF i < Len(sorted_items) THEN "line42" ELSE "line54"
                /\ UNCHANGED <<sorted_items, m_values, D1_v1, T_star, outcome>>
    /\ UNCHANGED <<python, instance, snapshot, prev, rel>>

\* Lines 54-55: the total system cost and the return.
Return ==
    /\ pc = "line54"
    /\ \E total \in {TotalSystemCost(python, instance.A, T_star,
                                     item_results)} :
           IF total.exc # ""
           THEN Raised(total.exc)
           ELSE /\ pc' = "returned"
                /\ outcome' =
                       [kind |-> "returned", exc |-> "", T_star |-> T_star,
                        total_system_cost |-> total.val,
                        item_results |-> item_results]
                /\ NoLocals
    /\ UNCHANGED <<python, instance, snapshot, prev, rel>>

Finished == pc \in {"returned", "raised"}

\* The caller calls find_optimal_policy again with the same instance object.
CallAgain ==
    /\ Finished
    /\ rel = "first"
    /\ pc' = "line26"
    /\ prev' = outcome
    /\ outcome' = NoOutcome
    /\ rel' = "same"
    /\ snapshot' = instance
    /\ UNCHANGED <<python, instance, locals>>

\* The list s with the items at positions j and j + 1 exchanged.
Swapped(s, j) ==
    [n \in 1..Len(s) |->
        IF n = j THEN s[j + 1] ELSE IF n = j + 1 THEN s[j] ELSE s[n]]

\* The caller calls it with an instance that differs from the last one only
\* in the order of its items: two neighbours exchanged (every permutation
\* is a chain of such exchanges).
CallPermuted ==
    /\ Finished
    /\ rel = "first"
    /\ \E j \in 1..(Len(instance.items) - 1) :
           /\ instance.items[j] # instance.items[j + 1]
           /\ instance' = [instance EXCEPT !.items = Swapped(instance.items, j)]
    /\ snapshot' = instance'
    /\ pc' = "line26"
    /\ prev' = outcome
    /\ outcome' = NoOutcome
    /\ rel' = "permuted"
    /\ UNCHANGED <<python, locals>>

Next ==
    \/ Rank
    \/ MultiplierStep
    \/ CycleTimeStep
    \/ ItemResultStep
    \/ Return
    \/ CallAgain
    \/ CallPermuted

Spec == Init /\ [][Next]_vars

\* ================================================================ claims
Returned == pc = "returned"

\* The locals of a call that is past the ranking.
Ranked == pc \in {"line32", "line36", "line42", "line54"}

Dv(item) == item.D * item.v

NonNegativeInputs ==
    /\ instance.A >= 0
    /\ instance.r >= 0
    /\ \A k \in 1..Len(instance.items) :
           /\ instance.items[k].a >= 0
           /\ instance.items[k].D >= 0
           /\ instance.items[k].v >= 0

HasZeroDemandItem == \E k \in 1..Len(instance.items) : Dv(instance.items[k]) = 0

Malformed == instance.items = <<>> \/ instance.A <= 0 \/ instance.r <= 0

\* C1: with finite, non-negative inputs the call returns one record per
\* item, each with an integer multiplier m >= 1, items with D * v = 0
\* included.
C1_EveryItemHasMultiplier ==
    (Finished /\ NonNegativeInputs /\ instance.items # <<>>)
        => /\ Returned
           /\ Len(outcome.item_results) = Len(instance.items)
           /\ \A k \in 1..Len(outcome.item_results) :
                  outcome.item_results[k].Multiplier >= 1

\* C2: an instance with an item whose D * v is 0 (and A > 0, r > 0, so that
\* nothing else is wrong with it) never makes the call raise: it returns a
\* triple.
C2_ZeroDemandNeverRaises ==
    (Finished /\ HasZeroDemandItem /\ instance.A > 0 /\ instance.r > 0)
        => Returned

\* C3: a malformed instance (no items, A <= 0 or r <= 0) never makes the
\* call raise: it returns (anomalous) numbers.
C3_MalformedNeverRaises == (Finished /\ Malformed) => Returned

\* C6: with A > 0, r > 0 and some item with D * v > 0, the call returns and
\* T_star > 0, whatever the other items are.
C6_PositiveCycleTime ==
    (/\ Finished
     /\ instance.A > 0
     /\ instance.r > 0
     /\ \E k \in 1..Len(instance.items) : Dv(instance.items[k]) > 0)
        => /\ Returned
           /\ outcome.T_star.k = "fin"
           /\ outcome.T_star.s > 0

\* The bijections of 1..n.
Orders(n) == {p \in [1..n -> 1..n] : \A j, k \in 1..n : p[j] = p[k] => j = k}

\* key(x) <= key(y), the key being a / (D * v), or +inf without demand value.
KeyLE(x, y) ==
    IF Dv(y) <= 0 THEN TRUE
    ELSE IF Dv(x) <= 0 THEN FALSE
    ELSE x.a * Dv(y) <= y.a * Dv(x)

\* The rank a stable ascending sort gives the item at position j of items:
\* behind the items of smaller key and the earlier items of equal key.
RankOf(items, j) ==
    1 + Cardinality({k \in 1..Len(items) :
                        \/ ~KeyLE(items[j], items[k])
                        \/ k < j /\ KeyLE(items[k], items[j])})

\* C4: the ranking, and the result sequence returned, list the input items,
\* each once, in ascending order of a_over_Dv (+inf for D * v = 0, so such
\* items come last), items of equal key in their input order.
C4_StableRanking ==
    LET items == instance.items
        n     == Len(instance.items)
    IN  /\ Ranked =>
               /\ Len(sorted_items) = n
               /\ \A j, k \in 1..n :
                      j < k => KeyLE(sorted_items[j], sorted_items[k])
               /\ \A j \in 1..n : sorted_items[RankOf(items, j)] = items[j]
               /\ \A k \in 1..Len(item_results) :
                      item_results[k].ID = sorted_items[k].id
        /\ Returned =>
               /\ Len(outcome.item_results) = n
               /\ \A j \in 1..n :
                      outcome.item_results[RankOf(items, j)].ID = items[j].id

\* A call has returned for items supplied out of order, two of which, of
\* different id, have the same key.
C4_Witness ==
    /\ Returned
    /\ \E j, k \in 1..Len(instance.items) :
           j < k /\ ~KeyLE(instance.items[j], instance.items[k])
    /\ \E j, k \in 1..Len(instance.items) :
           /\ j < k
           /\ instance.items[j].id # instance.items[k].id
           /\ KeyLE(instance.items[j], instance.items[k])
           /\ KeyLE(instance.items[k], instance.items[j])

\* C5: the reference item, first of the ranking and of the result sequence,
\* has multiplier 1.
C5_ReferenceMultiplierIsOne ==
    /\ Ranked => m_values[1] = 1
    /\ Returned => outcome.item_results[1].Multiplier = 1

\* A call has returned with some other item's multiplier above 1.
C5_Witness ==
    /\ Returned
    /\ \E k \in 2..Len(outcome.item_results) :
           outcome.item_results[k].Multiplier > 1

\* |x| * q against p, for a finite float x and integers q > 0 and p >= 0:
\* -1, 0 or 1 as it is below, equal or above (exactly: no rounding).
CmpTimes(x, q, p) ==
    LET n == Mul(x.m, Big(q))
    IN  IF x.e >= 0 THEN Cmp(Shl(n, x.e), Big(p))
        ELSE Cmp(n, Shl(Big(p), -x.e))

\* c units of 10^-k are nearest to the float x, and c is even when two
\* numbers of units are equally near: 2 |c| - 1 <= 2 * 10^k * |x| <= 2 |c| + 1.
NearestUnits(c, x, k) ==
    LET lo == CmpTimes(x, 2 * 10^k, 2 * Abs(c) - 1)
        hi == CmpTimes(x, 2 * 10^k, 2 * Abs(c) + 1)
    IN  /\ c = 0 \/ Sign(c) = x.s
        /\ c # 0 => lo >= 0
        /\ hi <= 0
        /\ ((c # 0 /\ lo = 0) \/ hi = 0) => c % 2 = 0

\* s_cost + h_cost of an item with multiplier m, as floats.
ItemCost(r, item, m, T) ==
    FAdd(FDiv(Float(item.a), CycleOf(m, T)), HoldingOf(r, item, CycleOf(m, T)))

\* The sum of the costs of the first k items, not rounded.
RECURSIVE SumCosts(_, _, _, _, _)
SumCosts(r, items, results, T, k) ==
    IF k = 0 THEN Zero
    ELSE FAdd(SumCosts(r, items, results, T, k - 1),
              ItemCost(r, items[k], results[k].Multiplier, T))

\* The floats of the Total Item Cost fields of the records, in their order.
TotalFields(results) ==
    [k \in 1..Len(results) |-> Units(results[k].TotalItemCost, 2)]

\* The cents of the Total Item Cost fields of the first k records.
RECURSIVE SumCents(_, _)
SumCents(results, k) ==
    IF k = 0 THEN 0 ELSE SumCents(results, k - 1) + results[k].TotalItemCost

\* The input items in ranked order.
RankedItems ==
    [k \in 1..Len(instance.items) |->
        instance.items[CHOOSE j \in 1..Len(instance.items) :
                           RankOf(instance.items, j) = k]]

\* C7: the total system cost returned is A / T_star (T_star unrounded) plus
\* the sum of the records' Total Item Cost fields (what sum() of the
\* interpreter gives for them in the order of the records), each of them the
\* item's setup_cost + holding_cost rounded to the nearest cent.
C7_TotalIsSumOfRounded ==
    Returned =>
        LET T      == outcome.T_star
            res    == outcome.item_results
            ranked == RankedItems
        IN  /\ outcome.total_system_cost =
                   FAdd(FDiv(Float(instance.A), T),
                        Sum(python, TotalFields(res)))
            /\ \A k \in 1..Len(res) :
                   NearestUnits(res[k].TotalItemCost,
                                ItemCost(instance.r, ranked[k],
                                         res[k].Multiplier, T), 2)

\* A call has returned a total in which the cents of the fields add up to
\* another amount than the sum of the items' costs rounded to the cent.
C7_Witness ==
    /\ Returned
    /\ instance.A > 0
    /\ instance.r > 0
    /\ Len(outcome.item_results) >= 2
    /\ SumCents(outcome.item_results, Len(outcome.item_results)) #
           RoundDigits(SumCosts(instance.r, RankedItems, outcome.item_results,
                                outcome.T_star, Len(outcome.item_results)), 2)

\* C8: a call leaves the instance as it was handed in, and a second call
\* with the same instance object ends as the first did: same T_star, total
\* cost and result sequence, in the same order.
C8_SameInstanceSameOutcome ==
    /\ Finished => instance = snapshot
    /\ (Finished /\ rel = "same") => outcome = prev

\* A second call has returned for items supplied out of order, two of which
\* have the same key.
C8_Witness ==
    /\ Returned
    /\ rel = "same"
    /\ \E j, k \in 1..Len(instance.items) :
           j < k /\ ~KeyLE(instance.items[j], instance.items[k])
    /\ \E j, k \in 1..Len(instance.items) :
           /\ j < k
           /\ KeyLE(instance.items[j], instance.items[k])
           /\ KeyLE(instance.items[k], instance.items[j])

\* C9 as claimed: two instances that differ only in the order of their items
\* get the same T_star, the same total cost and the same multiplier and
\* costs for each item.
C9_OrderIndependent ==
    (Finished /\ rel = "permuted" /\ prev.kind = "returned")
        => /\ Returned
           /\ outcome.T_star = prev.T_star
           /\ outcome.total_system_cost = prev.total_system_cost
           /\ \E q \in Orders(Len(prev.item_results)) :
                  /\ Len(outcome.item_results) = Len(prev.item_results)
                  /\ \A k \in 1..Len(prev.item_results) :
                         outcome.item_results[k] = prev.item_results[q[k]]

\* No two items of the instance have the same a_over_Dv.
DistinctKeys ==
    LET keys == [k \in 1..Len(instance.items) |-> a_over_Dv(instance.items[k])]
    IN  \A j, k \in 1..Len(instance.items) : j < k => keys[j] # keys[k]

\* C9 amended: two instances that differ only in the order of their items,
\* no two of which have the same a_over_Dv, end the same way: the same
\* exception, or the same T_star, total cost and result sequence.
C9_OrderIndependentDistinctKeys ==
    (Finished /\ rel = "permuted") => (outcome = prev \/ ~DistinctKeys)

\* A call has returned for three items of distinct keys, after a call for
\* the same items in another order.
C9_Witness ==
    /\ Returned
    /\ rel = "permuted"
    /\ DistinctKeys
    /\ Len(instance.items) = 3

\* The ranks past the first, once the loop of lines 31-33 is over.
SetRanks ==
    IF pc \in {"line36", "line42", "line54"} \/ Returned
    THEN 2..Len(instance.items)
    ELSE {}

MultiplierAt(k) ==
    IF Ranked THEN m_values[k] ELSE outcome.item_results[k].Multiplier

\* n is the integer nearest to sqrt(P / Q), the even one of two equally
\* near: n - 1/2 <= sqrt(P / Q) <= n + 1/2.
NearestToSqrt(n, P, Q) ==
    /\ n >= 1 => (2 * n - 1) * (2 * n - 1) * Q <= 4 * P
    /\ 4 * P <= (2 * n + 1) * (2 * n + 1) * Q
    /\ 4 * P = (2 * n + 1) * (2 * n + 1) * Q => n % 2 = 0
    /\ (n >= 1 /\ 4 * P = (2 * n - 1) * (2 * n - 1) * Q) => n % 2 = 0

\* The multipliers do not decrease along the ranking when A + a[0] > 0.
MultipliersAscend(ref) ==
    instance.A + ref.a > 0
        => \A j, k \in {1} \cup SetRanks :
               j < k => MultiplierAt(j) <= MultiplierAt(k)

\* C10 as claimed: at every rank past the first, with
\* ratio = a_over_Dv[i] * D[0] * v[0] / (A + a[0]) finite and >= 0, the
\* multiplier is max(1, n), n the integer nearest to sqrt(ratio) and the even
\* one at a tie; and the multipliers do not decrease along the ranking when
\* A + a[0] > 0.
C10_MultiplierFormula ==
    SetRanks # {} =>
        LET ranked == RankedItems
            ref    == ranked[1]
        IN  /\ \A k \in SetRanks :
                   LET P == ranked[k].a * Dv(ref)
                       Q == Dv(ranked[k]) * (instance.A + ref.a)
                   IN  (Dv(ranked[k]) > 0 /\ Q # 0 /\ P * Q >= 0)
                           => \E n \in 0..MultiplierAt(k) :
                                  /\ NearestToSqrt(n, Abs(P), Abs(Q))
                                  /\ MultiplierAt(k) = Max(1, n)
            /\ MultipliersAscend(ref)

\* The float math.sqrt(ratio) of an item, ref being the reference item.
FloatRoot(A, ref, item) ==
    FSqrt(FMul(a_over_Dv(item), FDiv(Float(Dv(ref)), Float(A + ref.a))))

\* C10 amended: the multiplier is max(1, n), n the integer nearest to the
\* float s that math.sqrt(ratio) is (n - 1/2 <= s <= n + 1/2), the even one
\* when s is exactly halfway; and the multipliers do not decrease along the
\* ranking when A + a[0] > 0.
C10_NearestToFloatRoot ==
    (pc = "line36" /\ Len(instance.items) >= 2) =>
        LET ranked == RankedItems
            ref    == ranked[1]
        IN  /\ \A k \in SetRanks :
                   LET s == FloatRoot(instance.A, ref, ranked[k])
                   IN  \E n \in {0, m_values[k]} :
                           /\ m_values[k] = Max(1, n)
                           /\ NearestUnits(n, s, 0)
            /\ MultipliersAscend(ref)

\* The loop has given the multiplier 2 to an item whose math.sqrt(ratio) is
\* the float 2.5, although its ratio is not the float 6.25.
C10_Witness ==
    /\ pc = "line36"
    /\ instance.r > 0
    /\ LET ranked == RankedItems
       IN  \E k \in 2..Len(instance.items) :
               /\ m_values[k] = 2
               /\ FloatRoot(instance.A, ranked[1], ranked[k]) =
                      FDiv(Float(5), Float(2))
               /\ FMul(a_over_Dv(ranked[k]),
                       FDiv(Float(Dv(ranked[1])),
                            Float(instance.A + ranked[1].a))) #
                      FDiv(Float(25), Float(4))

====
